---- MODULE Spec2Model ----
(***************************************************************************)
(* Model of src/ipa/rpi/cam_helper/cam_helper_vc_cam.cpp: the camera       *)
(* helper CamHelperImxVCCamera (gainCode, gain, getBlanking).              *)
(*                                                                         *)
(* Number representations used throughout:                                 *)
(*  - a Duration is a whole number of nanoseconds (>= 0);                  *)
(*  - a uint32_t is held as its 32-bit two's complement pattern read as a  *)
(*    signed integer: 0 .. 2^31-1 stand for themselves and -2^31 .. -1     *)
(*    stand for 2^31 .. 2^32-1.  Unsigned order, subtraction and           *)
(*    multiplication are defined on that representation (U32Less, U32Sub,  *)
(*    U32Mul), so a wrap-around of the C++ arithmetic is a wrap-around here*)
(*  - the uint64_t pixel rate is the record [mega, unit] standing for      *)
(*    mega * 10^6 + unit Hz.                                               *)
(***************************************************************************)
EXTENDS Integers, Sequences, FiniteSets, TLC

VARIABLES mode, minFrameDuration, exposure, last, prev,
          gainPc, gainIn, code, gainOut

vars == <<mode, minFrameDuration, exposure, last, prev,
          gainPc, gainIn, code, gainOut>>

(***************************************************************************)
(* Bounds of the model.                                                    *)
(***************************************************************************)
\* requested exposures are j * 1000 + 300 ns for j in 0 .. MaxExposureLines
MaxExposureLines == 5
\* minimum frame durations are k * 1000 + 700 ns for k in 0 .. MaxFrameLines
MaxFrameLines == 6
\* linear gains lie near the decades 10^0 .. 10^MaxDecades
MaxDecades == 2
\* sub-divisions of one gain-code step at which gains are sampled
SubSteps == 4

(***************************************************************************)
(* Program constants.                                                      *)
(***************************************************************************)
frameIntegrationDiff == 4
numLanes == 4
GainScale == 20000
NsPerSecond == 1000000000

(***************************************************************************)
(* Integer helpers.                                                        *)
(***************************************************************************)
MaxS32 == 2147483647
MinS32 == (-2147483647) - 1

Min(a, b) == IF a <= b THEN a ELSE b
Max(a, b) == IF a >= b THEN a ELSE b

\* unsigned a < b on uint32_t patterns
U32Less(a, b) == IF (a < 0) = (b < 0) THEN a < b ELSE b < 0

\* std::min on two uint32_t
U32Min(a, b) == IF U32Less(b, a) THEN b ELSE a

\* a - b modulo 2^32
U32Sub(a, b) ==
    IF a >= 0 /\ b < 0 /\ a > MaxS32 + b
      THEN (a + MinS32) - (b - MinS32)
      ELSE IF a < 0 /\ b > 0 /\ a < MinS32 + b
             THEN (a - MinS32) - (b + MinS32)
             ELSE a - b

\* a + b modulo 2^32
U32Add(a, b) ==
    IF a > 0 /\ b > 0 /\ a > MaxS32 - b
      THEN (a + MinS32) + (b + MinS32)
      ELSE IF a < 0 /\ b < 0 /\ a < MinS32 - b
             THEN (a - MinS32) + (b - MinS32)
             ELSE a + b

\* a * n modulo 2^32, for a small multiplier n >= 0
RECURSIVE U32Mul(_, _)
U32Mul(a, n) == IF n = 0 THEN 0 ELSE U32Add(U32Mul(a, n - 1), a)

\* <<quotient, remainder>> of a * b by c, for 0 <= a, 0 <= b, 0 < c < 2^30,
\* computed without forming the product a * b
RECURSIVE MulDivQR(_, _, _)
MulDivQR(a, b, c) ==
    IF b = 0 THEN <<0, 0>>
    ELSE LET h  == MulDivQR(a, b \div 2, c)
             q2 == 2 * h[1] + (2 * h[2]) \div c
             r2 == (2 * h[2]) % c
             ra == r2 + (a % c)
         IN  IF b % 2 = 0 THEN <<q2, r2>>
             ELSE <<q2 + (a \div c) + (ra \div c), ra % c>>

\* floor(a * b / c) in 64-bit unsigned arithmetic: with a = aq * c + ar and
\* b = bq * c + br it is aq * bq * c + aq * br + ar * bq + floor(ar * br / c)
MulDivFloor(a, b, c) ==
    LET aq == a \div c
        ar == a % c
        bq == b \div c
        br == b % c
    IN  aq * bq * c + aq * br + ar * bq
          + MulDivQR(Max(ar, br), Min(ar, br), c)[1]

(***************************************************************************)
(* The sensor modes and the durations the controller passes in.            *)
(***************************************************************************)
Hz(mega, unit) == [mega |-> mega, unit |-> unit]

CameraMode(bitdepth, width, height, pixelRate, minLL, maxLL, maxFL) ==
    [bitdepth |-> bitdepth, width |-> width, height |-> height,
     pixelRate |-> pixelRate, minLineLength |-> minLL,
     maxLineLength |-> maxLL, maxFrameLength |-> maxFL]

\* modes with a positive line length: line lengths of 1 to 4 us, and one
\* mode of a very long line (about 1.07 s) at an 8 GHz pixel rate
ValidModes ==
    { CameraMode(10, 1000, 2, Hz(800, 0), 1000, 4000, 3),
      CameraMode(8, 1000, 3, Hz(800, 0), 1000, 1400, 4),
      CameraMode(12, 1000, 3, Hz(2000, 7), 1500, 4000, 3),
      CameraMode(14, 90, 4, Hz(800, 0), 1000, 4000, 8),
      CameraMode(10, 1000, 5, Hz(3200, 5), 1001, 1700, 5),
      CameraMode(10, 1000, 2, Hz(8000, 0), 1073742193, 1073742193, 3) }

\* modes whose line length is the degenerate zero
DegenerateModes ==
    { CameraMode(10, 1000, 2, Hz(800, 0), 0, 4000, 3) }

Modes == ValidModes \cup DegenerateModes

\* the SensorMode invariant of the data model
ModeInvariant(m) ==
    /\ m.minLineLength <= m.maxLineLength
    /\ m.height <= m.maxFrameLength

Exposures == { j * 1000 + 300 : j \in 0 .. MaxExposureLines }

FrameDurations == { k * 1000 + 700 : k \in 0 .. MaxFrameLines }

(***************************************************************************)
(* Duration arithmetic and the CamHelper base-class conversions.           *)
(***************************************************************************)
\* what the conversion to uint32_t of an undefined quotient may give
UndefLines == {0, -1}

\* Duration / Duration converted to uint32_t: the possible results
DurationRatio(a, b) == IF b = 0 THEN UndefLines ELSE {a \div b}

\* Duration * uint32_t / uint32_t
DurationMulDiv(d, n, m) == IF d = 0 THEN 0 ELSE MulDivFloor(d, n, m)

\* CamHelper::exposureLines(exposure, lineLength)
CamHelperExposureLines(e, lineLength) == DurationRatio(e, lineLength)

\* CamHelper::exposure(exposureLines, lineLength)
CamHelperExposure(lines, lineLength) ==
    IF lineLength = 0 THEN 0 ELSE lines * lineLength

(***************************************************************************)
(* getBlanking.                                                            *)
(***************************************************************************)
kImx900_4Lane ==
    << [bitDepth |-> 8, hmaxBase |-> 338],
       [bitDepth |-> 10, hmaxBase |-> 364],
       [bitDepth |-> 12, hmaxBase |-> 610] >>

RECURSIVE HmaxLookup(_, _, _)
HmaxLookup(i, bitDepth, fallback) ==
    IF i > Len(kImx900_4Lane) THEN fallback
    ELSE IF kImx900_4Lane[i].bitDepth = bitDepth
           THEN kImx900_4Lane[i].hmaxBase
           ELSE HmaxLookup(i + 1, bitDepth, fallback)

HmaxBase(m) == HmaxLookup(1, m.bitdepth, m.width)

\* uint64_t / small divisor on the [mega, unit] representation
U64DivSmall(p, d) ==
    (p.mega \div d) * 1000000 + (((p.mega % d) * 1000000 + p.unit) \div d)

SensorPixelRate(m) == U64DivSmall(m.pixelRate, 2 * numLanes)

\* frameLengthLines before the rescaling: the possible values
InitialFrameLengthLines(m, minFD) ==
    DurationRatio(minFD, m.minLineLength)

Rescales(m, f0) == U32Less(m.maxFrameLength, f0)

\* variant: the division by maxFrameLength is done before the multiplication
LineLengthAdjustedDivFirst(m, f0) ==
    (m.minLineLength \div m.maxFrameLength) * f0

LineLengthAdjusted(m, f0) ==
    DurationMulDiv(m.minLineLength, f0, m.maxFrameLength)

FinalLineLength(m, f0) ==
    IF Rescales(m, f0)
      THEN Min(m.maxLineLength, LineLengthAdjusted(m, f0))
      ELSE m.minLineLength

\* variant: the frame length is not clamped after the rescaling
FinalFrameLengthLinesUnclamped(m, f0) == f0

FinalFrameLengthLines(m, f0) ==
    IF Rescales(m, f0) THEN m.maxFrameLength ELSE f0

HmaxOverwrite(m, lineLength) ==
    MulDivFloor(lineLength, SensorPixelRate(m), NsPerSecond)

HBlank(hmaxOverwrite, hmaxBase) ==
    IF U32Less(hmaxBase, hmaxOverwrite)
      THEN U32Mul(U32Sub(hmaxOverwrite, hmaxBase), numLanes)
      ELSE 0

VBlank(m, frameLengthLines) ==
    IF U32Less(m.height, frameLengthLines)
      THEN U32Sub(frameLengthLines, m.height)
      ELSE 0

\* variant: the requested lines and the margin change places
ExposureLinesCappedSwapped(frameLengthLines, lines) ==
    U32Min(U32Sub(frameLengthLines, lines), frameIntegrationDiff)

ExposureLinesCapped(frameLengthLines, lines) ==
    U32Min(U32Sub(frameLengthLines, frameIntegrationDiff), lines)

\* variant: the written exposure is taken at the mode's minimum line length
ExposureWrittenAtMinLine(m, exposureLines, lineLength) ==
    CamHelperExposure(exposureLines, m.minLineLength)

\* exposure = CamHelper::exposure(exposureLines, lineLength)
ExposureWritten(m, exposureLines, lineLength) ==
    CamHelperExposure(exposureLines, lineLength)

\* the results of one completed run of the body, with the final values of
\* the locals lineLength, frameLengthLines, hmaxOverwrite and hmaxBase
Returned(m, e, f0, lines) ==
    LET lineLength == FinalLineLength(m, f0)
        fll        == FinalFrameLengthLines(m, f0)
        hmaxO      == HmaxOverwrite(m, lineLength)
        expLines   == ExposureLinesCapped(fll, lines)
    IN  [outcome |-> "returned",
         vblank |-> VBlank(m, fll),
         hblank |-> HBlank(hmaxO, HmaxBase(m)),
         exposureOut |-> ExposureWritten(m, expLines, lineLength),
         lineLength |-> lineLength,
         frameLengthLines |-> fll,
         hmaxOverwrite |-> hmaxO,
         hmaxBase |-> HmaxBase(m)]

\* a run stopped by a trap of the division by a zero line length, where the
\* build's division traps: nothing is returned and the exposure is left
Faulted(e) ==
    [outcome |-> "fault",
     vblank |-> 0, hblank |-> 0, exposureOut |-> e,
     lineLength |-> 0, frameLengthLines |-> 0,
     hmaxOverwrite |-> 0, hmaxBase |-> 0]

\* the body of getBlanking run for one frame duration: the possible results
BlankingFor(m, e, frameDuration) ==
    UNION { { Returned(m, e, f0, lines) :
                lines \in CamHelperExposureLines(e, FinalLineLength(m, f0)) } :
            f0 \in InitialFrameLengthLines(m, frameDuration) }
    \cup (IF m.minLineLength = 0 THEN {Faulted(e)} ELSE {})

\* variant: the frame length is taken from maxFrameDuration
GetBlankingByMax(m, e, minFD, maxFD) == BlankingFor(m, e, maxFD)

\* getBlanking(exposure, minFrameDuration, maxFrameDuration): the possible
\* results; maxFrameDuration is cast to void
GetBlanking(m, e, minFD, maxFD) == BlankingFor(m, e, minFD)

\* the record of a call: its arguments and its results
CallRecord(e, maxFD, r) ==
    [outcome |-> r.outcome,
     exposureIn |-> e, maxFrameDuration |-> maxFD,
     vblank |-> r.vblank, hblank |-> r.hblank,
     exposureOut |-> r.exposureOut,
     lineLength |-> r.lineLength,
     frameLengthLines |-> r.frameLengthLines,
     hmaxOverwrite |-> r.hmaxOverwrite, hmaxBase |-> r.hmaxBase]

(***************************************************************************)
(* gainCode and gain.  A linear gain g is held as its position             *)
(* x = GainScale * SubSteps * log10(g) on the logarithmic scale, so that   *)
(* 20000 * log10(g) = x / SubSteps and 10^(c / 20000) has the position     *)
(* c * SubSteps.                                                           *)
(***************************************************************************)
\* the position of the gain 1e-9
GainFloor == (-9) * GainScale * SubSteps

\* std::lround(x / SubSteps): to the nearest, halves away from zero
LRound(x) ==
    IF x >= 0 THEN (2 * x + SubSteps) \div (2 * SubSteps)
    ELSE -(((2 * (-x)) + SubSteps) \div (2 * SubSteps))

GainCodeOf(x) ==
    LET g   == Max(x, GainFloor)
        mdb == LRound(g)
    IN  IF mdb < 0 THEN 0 ELSE mdb

\* variant: 10^(code / 10000)
GainOfHalfScale(c) == c * SubSteps * 2

GainOf(c) == c * SubSteps

\* the gains the controller asks for
Gains ==
    { d * GainScale * SubSteps + o :
        d \in 0 .. MaxDecades, o \in (-SubSteps) .. (3 * SubSteps) }

(***************************************************************************)
(* The state machine.  The helper is bound to one sensor mode; the         *)
(* controller runs at one minimum frame duration and holds the exposure it *)
(* passes to getBlanking by reference.  last and prev record the latest    *)
(* two calls (arguments, results and locals).                              *)
(***************************************************************************)
NoCall ==
    [outcome |-> "none",
     exposureIn |-> 0, maxFrameDuration |-> 0,
     vblank |-> 0, hblank |-> 0, exposureOut |-> 0,
     lineLength |-> 0, frameLengthLines |-> 0,
     hmaxOverwrite |-> 0, hmaxBase |-> 0]

Init ==
    /\ mode \in Modes
    /\ minFrameDuration \in FrameDurations
    /\ exposure = 0
    /\ last = NoCall
    /\ prev = NoCall
    /\ gainPc = "idle"
    /\ gainIn = 0
    /\ code = 0
    /\ gainOut = 0

\* the controller requests an exposure e under the window
\* [minFrameDuration, maxFD]
Call(e, maxFD) ==
    /\ \E r \in GetBlanking(mode, e, minFrameDuration, maxFD) :
         /\ last' = CallRecord(e, maxFD, r)
         /\ exposure' = r.exposureOut
    /\ prev' = last
    /\ UNCHANGED <<mode, minFrameDuration, gainPc, gainIn, code, gainOut>>

\* the controller calls again, passing the exposure written back to it and
\* the same window
CallAgain ==
    /\ last.outcome = "returned"
    /\ \E r \in GetBlanking(mode, exposure, minFrameDuration,
                            last.maxFrameDuration) :
         /\ last' = CallRecord(exposure, last.maxFrameDuration, r)
         /\ exposure' = r.exposureOut
    /\ prev' = last
    /\ UNCHANGED <<mode, minFrameDuration, gainPc, gainIn, code, gainOut>>

\* the controller encodes a gain
EncodeGain(x) ==
    /\ gainPc' = "encoded"
    /\ gainIn' = x
    /\ code' = GainCodeOf(x)
    /\ gainOut' = 0
    /\ UNCHANGED <<mode, minFrameDuration, exposure, last, prev>>

\* the controller decodes the gain code it holds
DecodeGain ==
    /\ gainPc = "encoded"
    /\ gainPc' = "decoded"
    /\ gainOut' = GainOf(code)
    /\ UNCHANGED <<mode, minFrameDuration, exposure, last, prev, gainIn, code>>

Next ==
    \/ \E e \in Exposures, extra \in {0, 1000} :
         Call(e, minFrameDuration + extra)
    \/ CallAgain

NextGain ==
    \/ \E x \in Gains : EncodeGain(x)
    \/ DecodeGain

Spec == Init /\ [][Next]_vars

SpecGain == Init /\ [][NextGain]_vars

(***************************************************************************)
(* Properties.                                                             *)
(***************************************************************************)
\* the last call returned under a mode of positive line length
ReturnedValid(c) == c.outcome = "returned" /\ mode.minLineLength > 0

\* floor(minFrameDuration / minLineLength)
RawFrameLength == minFrameDuration \div mode.minLineLength

\* the bit-depth table of the specification
TableHmaxBase ==
    CASE mode.bitdepth = 8 -> 338
      [] mode.bitdepth = 10 -> 364
      [] mode.bitdepth = 12 -> 610
      [] OTHER -> mode.width

\* prev and last are two returned calls under the same window
SameWindowPair ==
    /\ ReturnedValid(prev)
    /\ ReturnedValid(last)
    /\ prev.maxFrameDuration = last.maxFrameDuration

\* C1: after getBlanking returns, the written-back exposure in lines
\* (exposure / final lineLength) plus frameIntegrationDiff does not exceed
\* the final frameLengthLines, also when frameLengthLines is below
\* frameIntegrationDiff.
C1_MarginKept ==
    (ReturnedValid(last) /\ ModeInvariant(mode) /\ last.exposureIn > 0)
      => (last.exposureOut \div last.lineLength) + frameIntegrationDiff
           <= last.frameLengthLines

\* C2: the written-back exposure is at most the exposure passed in and is
\* a whole multiple of the final line length, the multiplier being
\* floor(requested exposure / line length) capped by
\* frameLengthLines - frameIntegrationDiff.
C2_WrittenExposure ==
    ReturnedValid(last)
      => /\ last.exposureOut <= last.exposureIn
         /\ last.exposureOut % last.lineLength = 0
         /\ last.exposureOut \div last.lineLength
              = Min(last.exposureIn \div last.lineLength,
                    last.frameLengthLines - frameIntegrationDiff)

\* C3: a call passing the exposure written back by the call before it,
\* under the same window, returns the same (verticalBlank, horizontalBlank)
\* and leaves the exposure unchanged.
C3_Idempotent ==
    (SameWindowPair /\ last.exposureIn = prev.exposureOut)
      => /\ last.vblank = prev.vblank
         /\ last.hblank = prev.hblank
         /\ last.exposureOut = last.exposureIn
         /\ exposure = prev.exposureOut

C3_Witness ==
    /\ SameWindowPair
    /\ last.exposureIn = prev.exposureOut
    /\ prev.exposureOut < prev.exposureIn
    /\ prev.exposureOut > 0
    /\ last.lineLength > mode.minLineLength

\* C4: under one mode and one window, a larger requested exposure never
\* gets a smaller written-back exposure.
C4_Monotonic ==
    SameWindowPair
      => /\ (prev.exposureIn <= last.exposureIn
               => prev.exposureOut <= last.exposureOut)
         /\ (last.exposureIn <= prev.exposureIn
               => last.exposureOut <= prev.exposureOut)

C4_Witness ==
    /\ SameWindowPair
    /\ prev.exposureIn < last.exposureIn
    /\ prev.exposureOut < last.exposureOut
    /\ last.exposureOut < last.exposureIn - last.lineLength

\* C5: when floor(minFrameDuration / minLineLength) exceeds maxFrameLength
\* the line length is rescaled, the final frameLengthLines is maxFrameLength
\* and verticalBlank is maxFrameLength - height; the final frameLengthLines
\* never exceeds maxFrameLength; without the excess the line length stays
\* minLineLength.
C5_FrameLengthClamped ==
    (ReturnedValid(last) /\ ModeInvariant(mode))
      => /\ last.frameLengthLines <= mode.maxFrameLength
         /\ RawFrameLength > mode.maxFrameLength
              => /\ last.frameLengthLines = mode.maxFrameLength
                 /\ last.vblank = mode.maxFrameLength - mode.height
                 /\ last.lineLength
                      = Min(mode.maxLineLength,
                            (mode.minLineLength * RawFrameLength)
                               \div mode.maxFrameLength)
         /\ RawFrameLength <= mode.maxFrameLength
              => /\ last.lineLength = mode.minLineLength
                 /\ last.frameLengthLines = RawFrameLength

C5_Witness ==
    /\ ReturnedValid(last)
    /\ RawFrameLength > mode.maxFrameLength
    /\ last.frameLengthLines = mode.maxFrameLength
    /\ last.vblank > 0
    /\ last.lineLength > mode.minLineLength

\* C6: two calls under the same mode with the same requested exposure and
\* the same minFrameDuration but different maxFrameDuration return the same
\* verticalBlank and horizontalBlank and write back the same exposure.
C6_MaxDurationIgnored ==
    (/\ ReturnedValid(prev)
     /\ ReturnedValid(last)
     /\ prev.exposureIn = last.exposureIn)
      => /\ last.vblank = prev.vblank
         /\ last.hblank = prev.hblank
         /\ last.exposureOut = prev.exposureOut

C6_Witness ==
    /\ ReturnedValid(prev)
    /\ ReturnedValid(last)
    /\ prev.exposureIn = last.exposureIn
    /\ prev.maxFrameDuration # last.maxFrameDuration
    /\ last.vblank > 0
    /\ last.exposureOut > 0

\* C7: with minLineLength = 0 a call of getBlanking fails fast: it returns
\* no blanking pair and writes back no exposure.
C7_FailsFast ==
    (mode.minLineLength = 0 /\ last.outcome # "none")
      => last.outcome = "fault"

\* C8: for a gain g >= 1, gain(gainCode(g)) is within one code step of g
\* (a factor 10^(1/20000), which is SubSteps positions of the logarithmic
\* scale).
C8_RoundTrip ==
    (gainPc = "decoded" /\ gainIn >= 0)
      => /\ gainOut - gainIn <= SubSteps
         /\ gainIn - gainOut <= SubSteps

C8_Witness ==
    /\ gainPc = "decoded"
    /\ gainIn > GainScale * SubSteps
    /\ gainOut # gainIn

\* C9 as stated: whenever getBlanking rescales, final lineLength * final
\* frameLengthLines equals minLineLength * floor(minFrameDuration /
\* minLineLength) up to the truncation of the division by maxFrameLength.
C9_DurationPreserved ==
    (/\ ReturnedValid(last)
     /\ ModeInvariant(mode)
     /\ RawFrameLength > mode.maxFrameLength)
      => LET lost == mode.minLineLength * RawFrameLength
                       - last.lineLength * last.frameLengthLines
         IN  0 <= lost /\ lost < mode.maxFrameLength

\* C9 amended: whenever getBlanking rescales, the total frame duration is
\* preserved up to the truncation of the division by maxFrameLength provided
\* the rescaled line length floor(minLineLength * frameLengthLines /
\* maxFrameLength) does not exceed maxLineLength; otherwise the line length
\* is maxLineLength and the total frame duration is shorter than requested.
C9_DurationPreservedUnlessClamped ==
    (/\ ReturnedValid(last)
     /\ ModeInvariant(mode)
     /\ RawFrameLength > mode.maxFrameLength)
      => LET wanted   == mode.minLineLength * RawFrameLength
             adjusted == wanted \div mode.maxFrameLength
             got      == last.lineLength * last.frameLengthLines
         IN  IF adjusted <= mode.maxLineLength
               THEN 0 <= wanted - got /\ wanted - got < mode.maxFrameLength
               ELSE /\ last.lineLength = mode.maxLineLength
                    /\ got = mode.maxLineLength * mode.maxFrameLength
                    /\ got < wanted

C9_Witness ==
    /\ ReturnedValid(last)
    /\ RawFrameLength > mode.maxFrameLength
    /\ last.lineLength < mode.maxLineLength
    /\ last.lineLength * last.frameLengthLines
         < mode.minLineLength * RawFrameLength

\* C10: horizontalBlank is 0 whenever hmaxOverwrite <= hmaxBase and is
\* otherwise exactly (hmaxOverwrite - hmaxBase) * 4, with hmaxBase from the
\* bit-depth table and hmaxOverwrite = floor(lineLength in ns *
\* (pixelRate / 8) / 1e9), without wrap-around of the 32-bit result.
C10_HBlankExact ==
    ReturnedValid(last)
      => LET hmax == MulDivFloor(last.lineLength,
                                 U64DivSmall(mode.pixelRate, 8), NsPerSecond)
         IN  IF hmax <= TableHmaxBase
               THEN last.hblank = 0
               ELSE /\ last.hblank >= 0
                    /\ last.hblank % 4 = 0
                    /\ last.hblank \div 4 = hmax - TableHmaxBase

====
